---- MODULE Spec2Model ----
(***************************************************************************)
(* A model of the GeminiVoiceAgent repository:                             *)
(*   - src/new.py    : the Flask variant: module startup (configuration),  *)
(*                     extract_text_from_response and the /api/chat        *)
(*                     handler api_chat;                                   *)
(*   - src/GPTraw.py : the command-line loop (listen_to_audio,             *)
(*                     genai_response, speak_text, the __main__ loop).     *)
(*                                                                         *)
(* Python strings are sequences of one-character strings, so that          *)
(* str.strip(), str.lower(), f-string concatenation and substring tests    *)
(* are computed and not assumed.  Python values are tagged records:        *)
(*   [kind |-> "none"]                      None                           *)
(*   [kind |-> "str",   s |-> chars]        a str                          *)
(*   [kind |-> "num",   s |-> digits]       an int (JSON number)           *)
(*   [kind |-> "list",  items |-> seq]      a list                         *)
(*   [kind |-> "tuple", items |-> seq]      a tuple                        *)
(*   [kind |-> "dict",  keys |-> record]    a dict (a mapping)             *)
(*   [kind |-> "obj",   attrs |-> record, strOk |-> BOOLEAN]  an object    *)
(* A dict key or an object attribute is an access record: [st |-> "absent"]*)
(* (no such key / attribute), [st |-> "raises"] (the attribute is a        *)
(* property whose getter raises something other than AttributeError), or   *)
(* [st |-> "ok", val |-> v].  strOk says whether str(obj) returns.         *)
(***************************************************************************)
EXTENDS Integers, Sequences, FiniteSets, TLC

VARIABLES
    \* --- extractor harness (src/new.py, extract_text_from_response)
    resp,        \* the ModelReply handed to the extractor
    ext,         \* its outcome, or NotRun
    \* --- Flask variant (src/new.py)
    USE_MOCK, DEBUG, API_KEY, model,   \* module-level configuration
    cfg0,        \* history: the configuration module startup produced
    nreq,        \* history: number of requests handled so far
    lastReq,     \* history: body of the last request
    lastAnswer,  \* history: what generate_content did for the last request
    gen_calls,   \* history: generate_content calls made by the last request
    response,    \* the HTTP response of the last request
    prevStatus,  \* history: status of the request before the last one
    prevAnswer,  \* history: what generate_content did for that request
    \* --- command-line variant (src/GPTraw.py)
    pc,          \* position in the __main__ loop
    user_input,  \* the loop's user_input
    ai_output,   \* the loop's ai_output
    heard,       \* history: utterances returned by listen_to_audio
    prompts,     \* history: arguments of genai_response, in call order
    spoken,      \* history: arguments of speak_text, in call order
    replies      \* history: values returned by genai_response, in call order

extVars == <<resp, ext>>
webVars == <<USE_MOCK, DEBUG, API_KEY, model, cfg0, nreq, lastReq, lastAnswer,
             gen_calls, response, prevStatus, prevAnswer>>
cliVars == <<pc, user_input, ai_output, heard, prompts, spoken, replies>>
vars == <<extVars, webVars, cliVars>>

-----------------------------------------------------------------------------
(* Bounds *)

\* longest candidates list enumerated for the extractor
MaxCands == 2
\* longest content sequence enumerated for the extractor
MaxContent == 2
\* number of /api/chat requests followed in one behaviour
MaxRequests == 2
\* number of utterances the command-line loop acquires in one behaviour
MaxTurns == 3

-----------------------------------------------------------------------------
(* Python strings *)

IsSpace(c) == c \in {" ", "\t", "\n"}

RECURSIVE LStrip(_)
LStrip(s) == IF s # <<>> /\ IsSpace(Head(s)) THEN LStrip(Tail(s)) ELSE s

RECURSIVE RStrip(_)
RStrip(s) ==
    IF s # <<>> /\ IsSpace(s[Len(s)]) THEN RStrip(SubSeq(s, 1, Len(s) - 1)) ELSE s

\* str.strip()
Strip(s) == RStrip(LStrip(s))

\* one character of str.lower(), over the letters the model uses
LowerChar(c) ==
    CASE c = "E" -> "e" [] c = "X" -> "x" [] c = "I" -> "i" [] c = "T" -> "t"
      [] c = "Q" -> "q" [] c = "U" -> "u" [] c = "S" -> "s" [] c = "O" -> "o"
      [] c = "P" -> "p" [] c = "H" -> "h" [] c = "R" -> "r" [] c = "Y" -> "y"
      [] OTHER -> c

\* str.lower()
Lower(s) == [i \in 1..Len(s) |-> LowerChar(s[i])]

\* Python's  sub in s  for strings
Contains(s, sub) ==
    \E i \in 0..(Len(s) - Len(sub)) : SubSeq(s, i + 1, i + Len(sub)) = sub

-----------------------------------------------------------------------------
(* Python values *)

PyNone == [kind |-> "none"]
PyStr(s) == [kind |-> "str", s |-> s]
PyNum(s) == [kind |-> "num", s |-> s]
PyList(items) == [kind |-> "list", items |-> items]
PyTuple(items) == [kind |-> "tuple", items |-> items]
PyDict(keys) == [kind |-> "dict", keys |-> keys]
PyObj(attrs, strOk) == [kind |-> "obj", attrs |-> attrs, strOk |-> strOk]

Absent == [st |-> "absent"]
Raises == [st |-> "raises"]
Ok(v) == [st |-> "ok", val |-> v]

\* outcomes of evaluating an expression or a block
Ret(v) == [st |-> "ret", val |-> v]     \* a value / a return statement
Exc == [st |-> "exc"]                   \* an exception propagates
Fall == [st |-> "fall"]                 \* the block ends without returning

\* bool(v)
Truthy(v) ==
    CASE v.kind = "none" -> FALSE
      [] v.kind = "str" -> v.s # <<>>
      [] v.kind = "num" -> v.s # <<"0">>
      [] v.kind \in {"list", "tuple"} -> v.items # <<>>
      [] v.kind = "dict" -> \E k \in DOMAIN v.keys : v.keys[k].st = "ok"
      [] OTHER -> TRUE

\* hasattr(o, name): TRUE, FALSE, or Exc when the getter raises
HasAttr(o, name) ==
    IF o.kind = "obj" /\ name \in DOMAIN o.attrs /\ o.attrs[name].st # "absent"
    THEN IF o.attrs[name].st = "raises" THEN Exc ELSE Ret(TRUE)
    ELSE Ret(FALSE)

\* o.name, for an attribute hasattr found
Attr(o, name) ==
    IF o.attrs[name].st = "raises" THEN Exc ELSE Ret(o.attrs[name].val)

\* getattr(o, name, None)
GetAttrOrNone(o, name) ==
    IF o.kind = "obj" /\ name \in DOMAIN o.attrs /\ o.attrs[name].st # "absent"
    THEN Attr(o, name)
    ELSE Ret(PyNone)

\* key in d, for a dict d
HasKey(d, key) == key \in DOMAIN d.keys /\ d.keys[key].st = "ok"

\* d[key], for a key that is in d
Item(d, key) == d.keys[key].val

\* Index0 gone wrong: the last element, v[-1]
IndexLast(v) ==
    CASE v.kind \in {"list", "tuple"} -> Ret(v.items[Len(v.items)])
      [] v.kind = "str" -> Ret(PyStr(<<v.s[Len(v.s)]>>))
      [] OTHER -> Exc

\* v[0], for a truthy v
Index0(v) ==
    CASE v.kind \in {"list", "tuple"} -> Ret(v.items[1])
      [] v.kind = "str" -> Ret(PyStr(<<v.s[1]>>))
      [] OTHER -> Exc      \* KeyError (dict), TypeError (object, number)

RECURSIVE ReprItems(_)
RECURSIVE Repr(_)
\* repr(v), up to the spelling of punctuation; raises when a nested str() does
Repr(v) ==
    CASE v.kind = "none" -> Ret(<<"N", "o", "n", "e">>)
      [] v.kind = "str" -> Ret(<<"'">> \o v.s \o <<"'">>)
      [] v.kind = "num" -> Ret(v.s)
      [] v.kind = "list" ->
            LET r == ReprItems(v.items)
            IN IF r.st = "exc" THEN Exc ELSE Ret(<<"[">> \o r.val \o <<"]">>)
      [] v.kind = "tuple" ->
            LET r == ReprItems(v.items)
            IN IF r.st = "exc" THEN Exc ELSE Ret(<<"(">> \o r.val \o <<")">>)
      [] v.kind = "dict" ->
            LET ks == <<"candidates", "content", "output_text", "text">>
                present == SelectSeq(ks, LAMBDA k : HasKey(v, k))
                r == ReprItems([i \in 1..Len(present) |-> Item(v, present[i])])
            IN IF r.st = "exc" THEN Exc ELSE Ret(<<"{">> \o r.val \o <<"}">>)
      [] OTHER -> IF v.strOk THEN Ret(<<"<", "o", "b", "j", ">">>) ELSE Exc

ReprItems(items) ==
    IF items = <<>> THEN Ret(<<>>)
    ELSE LET h == Repr(Head(items))
             t == ReprItems(Tail(items))
         IN IF h.st = "exc" \/ t.st = "exc" THEN Exc
            ELSE Ret(h.val \o <<",">> \o t.val)

\* str(v)
Str(v) ==
    IF v.kind = "str" THEN Ret(v)
    ELSE LET r == Repr(v) IN IF r.st = "exc" THEN Exc ELSE Ret(PyStr(r.val))

-----------------------------------------------------------------------------
(* src/new.py: extract_text_from_response *)

\* a then b, for blocks that return, raise or fall through
OrElse(a, b) == IF a.st = "fall" THEN b ELSE a

\* line 282
Placeholder == PyStr(<<"(unable to extract text)">>)

\* lines 234-236: text = getattr(resp, "text", None); if text: return text
DirectText(r) ==
    LET text == GetAttrOrNone(r, "text")
    IN IF text.st = "exc" THEN Exc
       ELSE IF Truthy(text.val) THEN Ret(text.val) ELSE Fall

\* lines 250-259: the first content element c0
ContentHead(c0) ==
    LET h == HasAttr(c0, "text")
    IN IF h.st = "exc" THEN Exc
       ELSE IF h.val THEN Attr(c0, "text")
       ELSE IF c0.kind = "dict" /\ HasKey(c0, "text") THEN Ret(Item(c0, "text"))
       ELSE IF c0.kind = "str" THEN Ret(c0)
       ELSE Fall

\* lines 243-259: the first candidate, attribute access
FirstCandidate(first) ==
    LET h == HasAttr(first, "output_text")
    IN IF h.st = "exc" THEN Exc
       ELSE IF h.val THEN Attr(first, "output_text")
       ELSE LET content == GetAttrOrNone(first, "content")
            IN IF content.st = "exc" THEN Exc
               ELSE IF /\ Truthy(content.val)
                       /\ content.val.kind \in {"list", "tuple"}
                       /\ Len(content.val.items) > 0
                    THEN ContentHead(content.val.items[1])
                    ELSE Fall

\* lines 238-261: candidates by attribute access; the inner try swallows
\* whatever is raised from candidates[0] on
ObjectCandidates(r) ==
    LET candidates == GetAttrOrNone(r, "candidates")
    IN IF candidates.st = "exc" THEN Exc
       ELSE IF Truthy(candidates.val)
            THEN LET first == Index0(candidates.val)
                     inner == IF first.st = "exc" THEN Exc
                              ELSE FirstCandidate(first.val)
                 IN IF inner.st = "exc" THEN Fall ELSE inner
            ELSE Fall

\* lines 263-275: candidates by key lookup, when resp is a dict
MappingCandidates(r) ==
    IF r.kind = "dict" /\ HasKey(r, "candidates") /\ Truthy(Item(r, "candidates"))
    THEN LET cand == Index0(Item(r, "candidates"))
         IN IF cand.st = "exc" THEN Exc
            ELSE IF cand.val.kind # "dict" THEN Fall
            ELSE IF HasKey(cand.val, "output_text")
                 THEN Ret(Item(cand.val, "output_text"))
            ELSE IF /\ HasKey(cand.val, "content")
                    /\ Item(cand.val, "content").kind = "list"
                    /\ Truthy(Item(cand.val, "content"))
                 THEN LET c0 == Item(cand.val, "content").items[1]
                      IN IF c0.kind = "dict" /\ HasKey(c0, "text")
                         THEN Ret(Item(c0, "text"))
                         ELSE IF c0.kind = "str" THEN Ret(c0) ELSE Fall
            ELSE Fall
    ELSE Fall

\* TryBody gone wrong: the candidates are tried before the direct text
TryBodyCandidatesFirst(r) ==
    IF r.kind = "none" THEN Ret(PyNone)
    ELSE IF r.kind = "str" THEN Ret(r)
    ELSE OrElse(ObjectCandidates(r),
         OrElse(DirectText(r),
         OrElse(MappingCandidates(r), Str(r))))

\* lines 228-277: the body of the outer try
TryBody(r) ==
    IF r.kind = "none" THEN Ret(PyNone)
    ELSE IF r.kind = "str" THEN Ret(r)
    ELSE OrElse(DirectText(r),
         OrElse(ObjectCandidates(r),
         OrElse(MappingCandidates(r), Str(r))))

\* lines 278-282: the outer except
OuterExcept(r) ==
    LET s == Str(r) IN IF s.st = "exc" THEN Ret(Placeholder) ELSE s

\* lines 222-282
extract_text_from_response(r) ==
    LET body == TryBody(r)
    IN IF body.st = "exc" THEN OuterExcept(r) ELSE body

-----------------------------------------------------------------------------
(* The ModelReply values the extractor is run on.  Each position carries   *)
(* its own text, so that a returned text tells where it was read:          *)
(* "T" direct text, "Y" output_text and "X" content text of the first      *)
(* candidate / element, "L" anything in a later candidate or element.      *)

\* sequences over S shorter than n
ShorterSeqs(S, n) == UNION {[1..k -> S] : k \in 0..(n - 1)}

TextT == PyStr(<<"T">>)
TextY == PyStr(<<"Y">>)
TextX == PyStr(<<"X">>)
TextL == PyStr(<<"L">>)

\* first content elements
C0Heads ==
    {TextX, PyNum(<<"5">>)}
    \cup {PyObj([text |-> a], TRUE) : a \in {Absent, Raises, Ok(PyNone), Ok(TextX)}}
    \cup {PyDict([text |-> a]) : a \in {Absent, Ok(TextX)}}

\* later content elements
C0Later == {PyObj([text |-> Ok(TextL)], TRUE), PyDict([text |-> Ok(TextL)])}

\* values of a candidate's content
Contents ==
    {PyNone, PyStr(<<"c">>), PyObj([text |-> Absent], TRUE), PyList(<<>>), PyTuple(<<>>)}
    \cup {PyList(<<h>> \o t) : h \in C0Heads, t \in ShorterSeqs(C0Later, MaxContent)}
    \cup {PyTuple(<<h>>) : h \in C0Heads}

\* a content next to an output_text
OneContent == PyList(<<PyDict([text |-> Ok(TextX)])>>)

\* first candidates
CandHeads ==
    {PyStr(<<"c">>)}
    \cup {PyObj([output_text |-> Absent, content |-> c], TRUE) :
            c \in {Absent, Raises} \cup {Ok(v) : v \in Contents}}
    \cup {PyObj([output_text |-> o, content |-> c], TRUE) :
            o \in {Raises, Ok(PyNone), Ok(TextY)}, c \in {Absent, Ok(OneContent)}}
    \cup {PyDict([output_text |-> Absent, content |-> c]) :
            c \in {Absent} \cup {Ok(v) : v \in Contents}}
    \cup {PyDict([output_text |-> Ok(TextY), content |-> c]) :
            c \in {Absent, Ok(OneContent)}}

\* later candidates
CandLater ==
    {PyObj([output_text |-> Ok(TextL), content |-> Absent], TRUE),
     PyDict([output_text |-> Absent,
             content |-> Ok(PyList(<<PyDict([text |-> Ok(TextL)])>>))])}

\* values of the candidates field
Candidates ==
    {PyNone, PyStr(<<"a", "b">>), PyDict([text |-> Ok(TextL)])}
    \cup {PyList(<<>>)}
    \cup {PyList(<<h>> \o t) : h \in CandHeads, t \in ShorterSeqs(CandLater, MaxCands)}

ModelReplies ==
    {PyNone, PyStr(<<>>), PyStr(<<"h", "i">>), PyNum(<<"5">>)}
    \cup {PyObj([text |-> t, candidates |-> c], ok) :
            t \in {Absent, Raises, Ok(PyNone), Ok(PyStr(<<>>)), Ok(TextT),
                   Ok(PyNum(<<"7">>))},
            c \in {Absent, Raises} \cup {Ok(v) : v \in Candidates},
            ok \in BOOLEAN}
    \cup {PyDict([text |-> t, candidates |-> c]) :
            t \in {Absent, Ok(TextT)},
            c \in {Absent} \cup {Ok(v) : v \in Candidates}}

-----------------------------------------------------------------------------
(* Idle values: each specification drives one part of the repository and   *)
(* leaves the variables of the other parts at these values.                *)

NotRun == [st |-> "notrun"]
NoResponse == [status |-> 0, key |-> "none", value |-> PyNone]
NoBody == [shape |-> "none"]
NoAnswer == [st |-> "notcalled"]

ExtIdle == resp = PyNone /\ ext = NotRun

WebIdle ==
    /\ USE_MOCK = FALSE /\ DEBUG = FALSE /\ API_KEY = PyNone /\ model = "None"
    /\ cfg0 = <<FALSE, FALSE, PyNone, "None">>
    /\ nreq = 0 /\ lastReq = NoBody /\ lastAnswer = NoAnswer /\ gen_calls = 0
    /\ response = NoResponse /\ prevStatus = 0 /\ prevAnswer = "notcalled"

CliIdle ==
    /\ pc = "idle" /\ user_input = <<>> /\ ai_output = <<>>
    /\ heard = <<>> /\ prompts = <<>> /\ spoken = <<>> /\ replies = <<>>

-----------------------------------------------------------------------------
(* The extractor run on every ModelReply of the bounded set *)

InitExtract == resp \in ModelReplies /\ ext = NotRun /\ WebIdle /\ CliIdle

\* one call extract_text_from_response(resp)
Extract ==
    /\ ext = NotRun
    /\ ext' = extract_text_from_response(resp)
    /\ UNCHANGED <<resp, webVars, cliVars>>

NextExtract == Extract

SpecExtract == InitExtract /\ [][NextExtract]_vars

-----------------------------------------------------------------------------
(* src/new.py: module startup, lines 19-47 *)

\* os.getenv(name, default): an unset variable (PyNone) reads as the default
GetEnv(v, default) == IF v.kind = "none" THEN default ELSE v.s

\* os.getenv(name, default).lower() in ("1", "true", "yes")
EnvFlag(v, default) ==
    Lower(GetEnv(v, default)) \in {<<"1">>, <<"t", "r", "u", "e">>, <<"y", "e", "s">>}

\* values of the USE_MOCK and DEBUG environment variables
FlagValues ==
    {PyNone, PyStr(<<"1">>), PyStr(<<"0">>), PyStr(<<"T", "R", "U", "E">>),
     PyStr(<<"Y", "e", "s">>), PyStr(<<"n", "o">>)}

\* values of GOOGLE_API_KEY
KeyValues == {PyNone, PyStr(<<>>), PyStr(<<"k">>)}

\* the environment and the SDK's behaviour at import time
Environments ==
    [USE_MOCK : FlagValues, DEBUG : FlagValues, GOOGLE_API_KEY : KeyValues,
     importOk : BOOLEAN, configureOk : BOOLEAN,
     flashOk : BOOLEAN, fallbackOk : BOOLEAN]

\* lines 20-47: <<USE_MOCK, DEBUG, API_KEY, model>> after module startup
Startup(env) ==
    LET key == env.GOOGLE_API_KEY
        mock == EnvFlag(env.USE_MOCK, <<"0">>)
        debug == EnvFlag(env.DEBUG, <<"1">>)
    IN IF mock THEN <<TRUE, debug, key, "None">>
       ELSE IF ~env.importOk THEN <<TRUE, debug, key, "None">>
       ELSE IF Truthy(key)
            THEN IF ~env.configureOk THEN <<TRUE, debug, key, "None">>
                 ELSE IF env.flashOk THEN <<FALSE, debug, key, "gemini-2.5-flash">>
                 ELSE IF env.fallbackOk THEN <<FALSE, debug, key, "gemini-1.5">>
                 ELSE <<FALSE, debug, key, "None">>
            ELSE <<TRUE, debug, key, "None">>

-----------------------------------------------------------------------------
(* src/new.py: api_chat, lines 288-315 *)

Msg(s) == PyStr(<<s>>)      \* a fixed message, kept as one token

MissingMessage == Msg("Missing 'message' field.")
EmptyMessage == Msg("Empty message.")
ModelNotInitialized == Msg("Model not initialized. Check server logs and API key.")
ModelError == Msg("Model error")
NotSerializable == Msg("Object is not JSON serializable")
MockPrefix ==
    <<"(", "m", "o", "c", "k", ")", " ", "I", " ", "r", "e", "c", "e", "i", "v",
      "e", "d", ":", " ">>

MessageKey == <<"m", "e", "s", "s", "a", "g", "e">>

\* what request.get_json(silent=True) returns
Bodies ==
    {PyNone, PyNum(<<"0">>), PyNum(<<"5">>),
     PyStr(MessageKey), PyStr(<<"h", "i">>),
     PyList(<<PyStr(MessageKey)>>), PyList(<<PyStr(<<"h", "i">>)>>),
     PyDict([message |-> Absent, other |-> Absent]),
     PyDict([message |-> Absent, other |-> Ok(PyStr(<<"h", "i">>))])}
    \cup {PyDict([message |-> Ok(m), other |-> Absent]) :
            m \in {PyNone, PyStr(<<>>), PyStr(<<" ">>), PyStr(<<" ", "\t">>),
                   PyStr(<<"h", "i">>), PyStr(<<" ", "h", "i", " ">>),
                   PyNum(<<"0">>), PyNum(<<"5">>)}}

\* what model.generate_content does: raises e (with str(e) = e.s) or returns
ModelAnswers ==
    {[st |-> "raises", val |-> Msg(e)] : e \in {"quota exceeded", "network down"}}
    \cup {[st |-> "returns", val |-> r] : r \in
            {PyNone, PyStr(<<"h", "e", "y">>), PyNum(<<"5">>),
             PyObj([text |-> Ok(TextT), candidates |-> Absent], TRUE),
             PyObj([text |-> Ok(PyNum(<<"7">>)), candidates |-> Absent], TRUE),
             PyObj([text |-> Raises, candidates |-> Absent], TRUE),
             PyObj([text |-> Absent, candidates |-> Raises], FALSE),
             PyObj([text |-> Absent, candidates |-> Ok(PyList(<<
                 PyObj([output_text |-> Ok(PyNone), content |-> Absent], TRUE)>>))],
                 TRUE),
             PyObj([text |-> Absent, candidates |-> Ok(PyList(<<
                 PyObj([output_text |-> Absent, content |-> Ok(PyList(<<
                     PyObj([text |-> Ok(PyObj([text |-> Absent], TRUE))], TRUE)>>))],
                     TRUE)>>))], TRUE),
             PyDict([text |-> Absent, candidates |-> Ok(PyList(<<
                 PyDict([output_text |-> Absent,
                         content |-> Ok(PyList(<<PyDict([text |-> Ok(TextX)])>>))])
                 >>))])}}

\* "message" in data
MessageIn(data) ==
    CASE data.kind = "dict" -> Ret(HasKey(data, "message"))
      [] data.kind \in {"list", "tuple"} ->
            Ret(\E i \in 1..Len(data.items) : data.items[i] = PyStr(MessageKey))
      [] data.kind = "str" -> Ret(Contains(data.s, MessageKey))
      [] OTHER -> Exc          \* TypeError: argument is not iterable

\* data["message"]
MessageOf(data) ==
    IF data.kind = "dict" THEN Ret(Item(data, "message"))
    ELSE Exc                   \* TypeError: indices must be integers

RECURSIVE Serializable(_)
\* whether jsonify accepts v
Serializable(v) ==
    CASE v.kind \in {"none", "str", "num"} -> TRUE
      [] v.kind \in {"list", "tuple"} ->
            \A i \in 1..Len(v.items) : Serializable(v.items[i])
      [] v.kind = "dict" ->
            \A k \in DOMAIN v.keys : v.keys[k].st = "ok" => Serializable(v.keys[k].val)
      [] OTHER -> FALSE

Reply(v) == [status |-> 200, key |-> "reply", value |-> v]
Error(code, m) == [status |-> code, key |-> "error", value |-> m]
\* an exception that leaves the view function: Flask answers 500, no JSON body
Unhandled == [status |-> 500, key |-> "unhandled", value |-> Msg("Internal Server Error")]

\* ExceptMessage gone wrong: the detail is surfaced whatever DEBUG is
ExceptMessageAlwaysDetail(debug, e) == e

\* lines 312-315: msg = str(e) if DEBUG else "Model error"
ExceptMessage(debug, e) == IF debug THEN e ELSE ModelError

\* RealCall gone wrong: model is not tested against None before the call
RealCallUnchecked(mdl, debug, user_message, ans) ==
    IF ans.st = "raises"
    THEN [response |-> Error(500, ExceptMessage(debug, ans.val)), called |-> TRUE]
    ELSE LET reply_text == extract_text_from_response(ans.val)
         IN IF reply_text.st # "ret" \/ ~Serializable(reply_text.val)
            THEN [response |-> Error(500, ExceptMessage(debug, NotSerializable)),
                  called |-> TRUE]
            ELSE [response |-> Reply(reply_text.val), called |-> TRUE]

\* lines 304-315: the real call.  mdl is the module's model, ans what
\* generate_content does when called
RealCall(mdl, debug, user_message, ans) ==
    IF mdl = "None"
    THEN [response |-> Error(500, ModelNotInitialized), called |-> FALSE]
    ELSE IF ans.st = "raises"
    THEN [response |-> Error(500, ExceptMessage(debug, ans.val)), called |-> TRUE]
    ELSE LET reply_text == extract_text_from_response(ans.val)
         IN IF reply_text.st # "ret" \/ ~Serializable(reply_text.val)
            THEN [response |-> Error(500, ExceptMessage(debug, NotSerializable)),
                  called |-> TRUE]
            ELSE [response |-> Reply(reply_text.val), called |-> TRUE]

\* lines 295-296: not user_message or not str(user_message).strip()
IsEmptyMessage(user_message) ==
    \/ ~Truthy(user_message)
    \/ Strip(Str(user_message).val.s) = <<>>

\* MockReply gone wrong: a canned reply that leaves the message out
MockReplyCanned(user_message) == Reply(PyStr(MockPrefix))

\* lines 299-301
MockReply(user_message) == Reply(PyStr(MockPrefix \o Str(user_message).val.s))

\* lines 289-315: the response, and whether generate_content was called
api_chat(mock, debug, mdl, data, ans) ==
    LET has == IF Truthy(data) THEN MessageIn(data) ELSE Ret(FALSE)
    IN IF ~Truthy(data) \/ (has.st = "ret" /\ ~has.val)
       THEN [response |-> Error(400, MissingMessage), called |-> FALSE]
       ELSE IF has.st = "exc" \/ MessageOf(data).st = "exc"
       THEN [response |-> Unhandled, called |-> FALSE]
       ELSE LET user_message == MessageOf(data).val
            IN IF IsEmptyMessage(user_message)
               THEN [response |-> Error(400, EmptyMessage), called |-> FALSE]
               ELSE IF mock
               THEN [response |-> MockReply(user_message), called |-> FALSE]
               ELSE RealCall(mdl, debug, user_message, ans)

\* ConfigAfter gone wrong: a failed request switches the process to mock mode
ConfigAfterFallback(cfg, out) ==
    IF out.response.status = 500 THEN <<TRUE, cfg[2], cfg[3], cfg[4]>> ELSE cfg

\* api_chat has no global statement: it assigns none of the module's
\* USE_MOCK, DEBUG, API_KEY, model
ConfigAfter(cfg, out) == cfg

Config == <<USE_MOCK, DEBUG, API_KEY, model>>

InitWeb ==
    /\ \E env \in Environments :
          /\ USE_MOCK = Startup(env)[1] /\ DEBUG = Startup(env)[2]
          /\ API_KEY = Startup(env)[3] /\ model = Startup(env)[4]
          /\ cfg0 = Startup(env)
    /\ nreq = 0 /\ lastReq = NoBody /\ lastAnswer = NoAnswer /\ gen_calls = 0
    /\ response = NoResponse /\ prevStatus = 0 /\ prevAnswer = "notcalled"
    /\ ExtIdle /\ CliIdle

\* one POST /api/chat
ApiChat ==
    /\ nreq < MaxRequests
    /\ \E data \in Bodies, ans \in ModelAnswers :
          LET out == api_chat(USE_MOCK, DEBUG, model, data, ans)
              after == ConfigAfter(Config, out)
          IN /\ response' = out.response
             /\ lastReq' = [shape |-> "json", data |-> data]
             /\ lastAnswer' = IF out.called THEN ans ELSE NoAnswer
             /\ gen_calls' = IF out.called THEN 1 ELSE 0
             /\ USE_MOCK' = after[1] /\ DEBUG' = after[2]
             /\ API_KEY' = after[3] /\ model' = after[4]
    /\ prevStatus' = response.status
    /\ prevAnswer' = lastAnswer.st
    /\ nreq' = nreq + 1
    /\ UNCHANGED <<cfg0, extVars, cliVars>>

NextWeb == ApiChat

SpecWeb == InitWeb /\ [][NextWeb]_vars

-----------------------------------------------------------------------------
(* src/GPTraw.py: the command-line loop *)

\* what recognizer.recognize_google does: returns a text or raises
Recognitions ==
    {[st |-> "text", val |-> u] : u \in
        {<<"e", "x", "i", "t">>, <<"Q", "u", "i", "T">>, <<"S", "T", "O", "P">>,
         <<" ", "e", "x", "i", "t">>, <<>>, <<" ">>, <<"h", "i">>}}
    \cup {[st |-> "UnknownValueError", val |-> <<>>],
          [st |-> "RequestError", val |-> <<>>]}

\* what model.generate_content(prompt).text does in genai_response
CliAnswers ==
    {[st |-> "text", val |-> <<"o", "k">>], [st |-> "raises", val |-> <<>>]}

SorryMessage == <<"Sorry, I encountered an error processing your request.">>

\* lines 30-46
listen_to_audio(rec) == IF rec.st = "text" THEN rec.val ELSE <<>>

\* lines 51-57
genai_response(ans) == IF ans.st = "text" THEN ans.val ELSE SorryMessage

\* IsExitWord gone wrong: the comparison without lower()
IsExitWordExact(u) ==
    u \in {<<"e", "x", "i", "t">>, <<"q", "u", "i", "t">>, <<"s", "t", "o", "p">>}

\* line 79: user_input.lower() in ["exit", "quit", "stop"]
IsExitWord(u) ==
    Lower(u) \in {<<"e", "x", "i", "t">>, <<"q", "u", "i", "t">>, <<"s", "t", "o", "p">>}

\* line 82: user_input.strip()
IsSpoken(u) == Strip(u) # <<>>

InitCli ==
    /\ pc = "listen" /\ user_input = <<>> /\ ai_output = <<>>
    /\ heard = <<>> /\ prompts = <<>> /\ spoken = <<>> /\ replies = <<>>
    /\ ExtIdle /\ WebIdle

\* line 78: user_input = listen_to_audio()
Listen ==
    /\ pc = "listen"
    /\ Len(heard) < MaxTurns
    /\ \E rec \in Recognitions :
          /\ user_input' = listen_to_audio(rec)
          /\ heard' = Append(heard, listen_to_audio(rec))
    /\ pc' = "check"
    /\ UNCHANGED <<ai_output, prompts, spoken, replies, extVars, webVars>>

\* lines 79-81: break
ExitLoop ==
    /\ pc = "check"
    /\ IsExitWord(user_input)
    /\ pc' = "done"
    /\ UNCHANGED <<user_input, ai_output, heard, prompts, spoken, replies,
                   extVars, webVars>>

\* line 82, condition false: back to the top of the loop
SkipUtterance ==
    /\ pc = "check"
    /\ ~IsExitWord(user_input)
    /\ ~IsSpoken(user_input)
    /\ pc' = "listen"
    /\ UNCHANGED <<user_input, ai_output, heard, prompts, spoken, replies,
                   extVars, webVars>>

\* lines 82-83: ai_output = genai_response(user_input)
Respond ==
    /\ pc = "check"
    /\ ~IsExitWord(user_input)
    /\ IsSpoken(user_input)
    /\ \E ans \in CliAnswers :
          /\ ai_output' = genai_response(ans)
          /\ replies' = Append(replies, genai_response(ans))
    /\ prompts' = Append(prompts, user_input)
    /\ pc' = "speak"
    /\ UNCHANGED <<user_input, heard, spoken, extVars, webVars>>

\* line 85: speak_text(ai_output); lines 62-68 catch a failing engine
Speak ==
    /\ pc = "speak"
    /\ \E said \in BOOLEAN :
          spoken' = Append(spoken, [text |-> ai_output, said |-> said])
    /\ pc' = "listen"
    /\ UNCHANGED <<user_input, ai_output, heard, prompts, replies, extVars, webVars>>

NextCli == Listen \/ ExitLoop \/ SkipUtterance \/ Respond \/ Speak

SpecCli == InitCli /\ [][NextCli]_vars

-----------------------------------------------------------------------------
(* The three parts side by side *)

Init == InitExtract \/ InitWeb \/ InitCli

Next == NextExtract \/ NextWeb \/ NextCli

Spec == Init /\ [][Next]_vars

-----------------------------------------------------------------------------
(* Vocabulary of the properties, stated on the inputs and not through the  *)
(* operators that model the code                                           *)

\* the values a field or key of o named name holds
FieldVals(o, name) ==
    IF o.kind = "obj" /\ name \in DOMAIN o.attrs /\ o.attrs[name].st = "ok"
    THEN {o.attrs[name].val}
    ELSE IF o.kind = "dict" /\ name \in DOMAIN o.keys /\ o.keys[name].st = "ok"
    THEN {o.keys[name].val}
    ELSE {}

Elements(v) ==
    IF v.kind \in {"list", "tuple"} THEN {v.items[i] : i \in 1..Len(v.items)} ELSE {}

ElementTexts(c0) == FieldVals(c0, "text") \cup (IF c0.kind = "str" THEN {c0} ELSE {})

CandidateTexts(c) ==
    FieldVals(c, "output_text")
    \cup UNION {ElementTexts(e) : e \in UNION {Elements(v) : v \in FieldVals(c, "content")}}

\* every value found at a text position anywhere in r
TextsIn(r) ==
    (IF r.kind = "str" THEN {r} ELSE {})
    \cup FieldVals(r, "text")
    \cup UNION {CandidateTexts(c) :
                  c \in UNION {Elements(v) : v \in FieldVals(r, "candidates")}}

Extracted == ext # NotRun

\* o has no field or key named name (not even one whose access fails)
Lacks(o, name) ==
    /\ o.kind = "obj" /\ name \in DOMAIN o.attrs => o.attrs[name].st = "absent"
    /\ o.kind = "dict" /\ name \in DOMAIN o.keys => o.keys[name].st = "absent"

\* r has no direct text field, or an empty one
NoDirectText(r) ==
    \/ r.kind = "dict"
    \/ Lacks(r, "text")
    \/ \E v \in FieldVals(r, "text") : v \in {PyNone, PyStr(<<>>)}

\* no value at a text position of r is an object
PlainTexts(r) == \A v \in TextsIn(r) : v.kind \in {"none", "str", "num"}

\* r is an object (asObject) or a mapping whose candidates field is a
\* non-empty list
HasCandidates(r, asObject) ==
    /\ r.kind = (IF asObject THEN "obj" ELSE "dict")
    /\ \E v \in FieldVals(r, "candidates") : v.kind = "list" /\ v.items # <<>>

FirstCand(r) == (CHOOSE v \in FieldVals(r, "candidates") : TRUE).items[1]

\* the first element of the first candidate's content, in a set
FirstContentElement(r, kinds) ==
    {v.items[1] : v \in {c \in FieldVals(FirstCand(r), "content") :
                            c.kind \in kinds /\ c.items # <<>>}}

\* the body of the last request carries a message field
HasMessage == lastReq.data.kind = "dict" /\ FieldVals(lastReq.data, "message") # {}

TheMessage == CHOOSE m \in FieldVals(lastReq.data, "message") : TRUE

Handled == nreq > 0

\* a string with a character that is not whitespace, or a non-zero number
NonBlank(m) ==
    \/ m.kind = "str" /\ \E i \in 1..Len(m.s) : ~IsSpace(m.s[i])
    \/ m.kind = "num" /\ m.s # <<"0">>

\* the text of m as it appears in a reply
TextOf(m) == m.s

NoMockReply ==
    ~(response.key = "reply" /\ response.value.kind = "str"
      /\ Contains(response.value.s, MockPrefix))

ExitKeywords ==
    {<<"e", "x", "i", "t">>, <<"q", "u", "i", "t">>, <<"s", "t", "o", "p">>}

\* u equals an exit keyword up to the case of its letters
ExitKeyword(u) ==
    \E w \in ExitKeywords :
        Len(u) = Len(w) /\ \A i \in 1..Len(u) : u[i] = w[i] \/ LowerChar(u[i]) = w[i]

Blank(u) == \A i \in 1..Len(u) : IsSpace(u[i])

Front(s) == SubSeq(s, 1, Len(s) - 1)

\* the utterances whose turn of the loop is decided
Decided == IF pc = "check" THEN Front(heard) ELSE heard

-----------------------------------------------------------------------------
(* Properties *)

\* the extractor returns and never raises (the part of C1 that holds)
ExtractNeverRaises == Extracted => ext.st = "ret"

\* C1: extract_text_from_response never raises, and what it returns is the
\* extracted text, the stringified input, or the fixed placeholder.
C1_ReturnsTextReprOrPlaceholder ==
    Extracted =>
        /\ ext.st = "ret"
        /\ \/ ext.val \in TextsIn(resp)
           \/ Str(resp) = Ret(ext.val)
           \/ ext.val = Placeholder

\* C2: a plain string is returned unchanged, and a non-empty direct text
\* field is returned whatever candidates the input also carries.
C2_FirstSuccessWins ==
    Extracted =>
        /\ resp.kind = "str" => ext = Ret(resp)
        /\ resp.kind = "obj" =>
              \A v \in FieldVals(resp, "text") :
                  v \notin {PyNone, PyStr(<<>>)} => ext = Ret(v)

C2_Witness ==
    /\ Extracted /\ ext = Ret(TextT)
    /\ resp.kind = "obj"
    /\ \E v \in FieldVals(resp, "candidates") :
          \E c \in Elements(v) : TextY \in FieldVals(c, "output_text")

\* C3: with no direct text and a non-empty candidates list, only the first
\* candidate and the first element of its content are used, for an object
\* as for a mapping; a text of a later candidate or element is never returned.
C3_FirstCandidateFirstElement ==
    Extracted /\ NoDirectText(resp) =>
        /\ ext # Ret(TextL)
        /\ \A asObject \in BOOLEAN :
              HasCandidates(resp, asObject) /\ FirstCand(resp).kind = resp.kind =>
                 /\ \A y \in FieldVals(FirstCand(resp), "output_text") : ext = Ret(y)
                 /\ Lacks(FirstCand(resp), "output_text") =>
                       \A c0 \in FirstContentElement(resp,
                                    IF asObject THEN {"list", "tuple"} ELSE {"list"}) :
                          /\ c0.kind = resp.kind =>
                                \A x \in FieldVals(c0, "text") : ext = Ret(x)
                          /\ c0.kind = "str" => ext = Ret(c0)

C3_Witness ==
    /\ Extracted /\ ext = Ret(TextX)
    /\ resp.kind = "dict"
    /\ HasCandidates(resp, FALSE)
    /\ Len((CHOOSE v \in FieldVals(resp, "candidates") : TRUE).items) > 1
    /\ \E c \in FieldVals(FirstCand(resp), "content") : Len(c.items) > 1

\* C4: a missing message field, or an empty or whitespace-only message, is
\* answered 400 with its error, and neither the mock reply nor
\* generate_content is reached.
C4_InputErrorsRejected ==
    Handled =>
        /\ ~HasMessage =>
              response = Error(400, MissingMessage) /\ gen_calls = 0 /\ NoMockReply
        /\ HasMessage /\ TheMessage.kind = "str" /\ Blank(TheMessage.s) =>
              response = Error(400, EmptyMessage) /\ gen_calls = 0 /\ NoMockReply

\* C5: with the mock flag set, or with no model client, every non-empty
\* message is answered with the mock echo and no external call is made.
C5_MockOrNoModelEchoes ==
    Handled /\ (USE_MOCK \/ model = "None")
            /\ HasMessage /\ TheMessage.kind = "str" /\ TheMessage.s # <<>> =>
        /\ response = Reply(PyStr(MockPrefix \o TextOf(TheMessage)))
        /\ gen_calls = 0

\* C5 as amended: with the mock flag set every message that is not empty or
\* whitespace-only is answered with the mock echo; with the flag clear and
\* no model client it is answered 500 "Model not initialized"; no external
\* call is made in either case.
C5_MockEchoesNoModelFails ==
    Handled /\ HasMessage /\ NonBlank(TheMessage) =>
        /\ USE_MOCK =>
              /\ response = Reply(PyStr(MockPrefix \o TextOf(TheMessage)))
              /\ gen_calls = 0
        /\ ~USE_MOCK /\ model = "None" =>
              /\ response = Error(500, ModelNotInitialized)
              /\ gen_calls = 0

C5_Witness ==
    /\ Handled /\ HasMessage /\ NonBlank(TheMessage)
    /\ ~USE_MOCK /\ model = "None"
    /\ response.status = 500

\* C6: in mock mode every request with a non-empty message m is answered
\* 200 with a reply string containing m, and generate_content is not called.
C6_MockRepliesContainMessage ==
    Handled /\ USE_MOCK /\ HasMessage /\ TheMessage.kind = "str" /\ TheMessage.s # <<>> =>
        /\ response.status = 200 /\ response.key = "reply"
        /\ response.value.kind = "str"
        /\ Contains(response.value.s, TextOf(TheMessage))
        /\ gen_calls = 0

\* C6 as amended: in mock mode every request with a message m that is not
\* empty or whitespace-only is answered 200 with a reply string containing
\* m, and generate_content is not called.
C6_MockRepliesContainNonBlankMessage ==
    Handled /\ USE_MOCK /\ HasMessage /\ NonBlank(TheMessage) =>
        /\ response.status = 200 /\ response.key = "reply"
        /\ response.value.kind = "str"
        /\ Contains(response.value.s, TextOf(TheMessage))
        /\ gen_calls = 0

C6_Witness ==
    /\ Handled /\ USE_MOCK /\ HasMessage
    /\ TheMessage = PyStr(<<" ", "h", "i", " ">>)
    /\ response.status = 200

\* C7: with mock off and a model configured, a failure of generate_content
\* is answered 500 {error: msg}, msg the failure's description when DEBUG is
\* on and "Model error" when it is off; it never leaves the handler.
C7_ModelFailureIs500 ==
    Handled /\ lastAnswer.st = "raises" =>
        /\ ~USE_MOCK /\ model # "None"
        /\ DEBUG => response = Error(500, lastAnswer.val)
        /\ ~DEBUG => response = Error(500, ModelError)

C7_Witness ==
    /\ Handled /\ lastAnswer.st = "raises" /\ ~DEBUG
    /\ response = Error(500, ModelError)

C9_ReplyIsString ==
    response.status = 200 => response.key = "reply" /\ response.value.kind = "str"

\* C10: the loop ends at the first exit keyword, which is not passed on; an
\* empty utterance is skipped; every other utterance is passed to
\* genai_response once and its reply to speak_text before the next
\* utterance is acquired.
C10_LoopPassesNonEmpty ==
    /\ \A i \in 1..(Len(heard) - 1) : ~ExitKeyword(heard[i])
    /\ heard # <<>> /\ ExitKeyword(heard[Len(heard)]) => pc \in {"check", "done"}
    /\ pc = "done" => heard # <<>> /\ ExitKeyword(heard[Len(heard)])
    /\ prompts = SelectSeq(Decided, LAMBDA u : ~ExitKeyword(u) /\ u # <<>>)
    /\ Len(replies) = Len(prompts)
    /\ [i \in 1..Len(spoken) |-> spoken[i].text]
          = (IF pc = "speak" THEN Front(replies) ELSE replies)

\* C10 as amended: as C10, with an empty or whitespace-only utterance skipped.
C10_LoopPassesNonBlank ==
    /\ \A i \in 1..(Len(heard) - 1) : ~ExitKeyword(heard[i])
    /\ heard # <<>> /\ ExitKeyword(heard[Len(heard)]) => pc \in {"check", "done"}
    /\ pc = "done" => heard # <<>> /\ ExitKeyword(heard[Len(heard)])
    /\ prompts = SelectSeq(Decided, LAMBDA u : ~ExitKeyword(u) /\ ~Blank(u))
    /\ Len(replies) = Len(prompts)
    /\ [i \in 1..Len(spoken) |-> spoken[i].text]
          = (IF pc = "speak" THEN Front(replies) ELSE replies)

C10_Witness ==
    /\ pc = "done"
    /\ heard = << <<"h", "i">>, <<" ">>, <<"Q", "u", "i", "T">> >>
    /\ prompts = << <<"h", "i">> >>
    /\ Len(spoken) = 1

====
